---------------------------- MODULE Spec2Model ----------------------------
(***************************************************************************)
(* A model of the tet-rs rules engine: the playfield grid (grid.rs), the   *)
(* piece geometry (piece.rs), the rotation arithmetic (utils.rs) and the   *)
(* GameState orchestration (gamestate.rs), driven by a host that issues    *)
(* apply_gravity, on_button_pressed and on_update calls.                   *)
(*                                                                         *)
(* Cells are pairs <<x, y>>; a piece map is a sequence of 4 cells; the     *)
(* grid map is a function row -> column -> kind, rows and columns counted  *)
(* from 0 as in the source.                                                *)
(***************************************************************************)
EXTENDS Integers, Sequences, FiniteSets, TLC

\* ------------------------------------------------------------- grid.rs
GRID_COLUMNS == 10
GRID_ROWS == 24
GRID_VISIBLE_ROWS == 20

\* ------------------------------------------------------------ piece.rs
None == "None"
PieceKinds == {"I", "J", "L", "O", "S", "T", "Z"}

PIECE_I == << <<0, 1>>, <<1, 1>>, <<2, 1>>, <<3, 1>> >>
PIECE_J == << <<0, 1>>, <<1, 1>>, <<2, 1>>, <<2, 0>> >>
PIECE_L == << <<0, 0>>, <<0, 1>>, <<1, 1>>, <<2, 1>> >>
PIECE_O == << <<0, 0>>, <<1, 0>>, <<0, 1>>, <<1, 1>> >>
PIECE_S == << <<0, 0>>, <<1, 0>>, <<1, 1>>, <<2, 1>> >>
PIECE_T == << <<0, 1>>, <<1, 1>>, <<2, 1>>, <<1, 2>> >>
PIECE_Z == << <<1, 0>>, <<2, 0>>, <<0, 1>>, <<1, 1>> >>

\* ------------------------------------------------------------ utils.rs
Rotations == 0 .. 3
Rot0 == 0
Rot90 == 1
Rot180 == 2
Rot270 == 3

\* impl Add / AddAssign for Rotation: (self + rhs).rem_euclid(4)
RotationAdd(a, b) == (a + b) % 4

\* ------------------------------------------- piece.rs: PieceDimensions
\* Iterator::min_by keeps the accumulator unless it compares Greater;
\* Iterator::max_by keeps the accumulator only when it compares Greater.
\* Both fold over the 4 cells of the map from the first to the last.
x_min(piece_map) ==
    LET step(a, b) == IF a[1] > b[1] THEN b ELSE a
    IN  step(step(step(piece_map[1], piece_map[2]), piece_map[3]), piece_map[4])[1]

x_max(piece_map) ==
    LET step(a, b) == IF a[1] > b[1] THEN a ELSE b
    IN  step(step(step(piece_map[1], piece_map[2]), piece_map[3]), piece_map[4])[1]

y_min(piece_map) ==
    LET step(a, b) == IF a[2] > b[2] THEN b ELSE a
    IN  step(step(step(piece_map[1], piece_map[2]), piece_map[3]), piece_map[4])[2]

\* The comparator of y_max is |(y1, _), (_, y2)| y1.cmp(y2): it compares the
\* FIRST component of the accumulator with the second component of the element.
y_max(piece_map) ==
    LET step(a, b) == IF a[1] > b[2] THEN a ELSE b
    IN  step(step(step(piece_map[1], piece_map[2]), piece_map[3]), piece_map[4])[2]

get_width(piece_map) == x_max(piece_map) - x_min(piece_map) + 1

get_height(piece_map) == y_max(piece_map) - y_min(piece_map) + 1

\* The lowest y of the cells of column w, for w from x_min to x_max; the
\* result is indexed from 1 here (skirt[w as usize] is get_skirt(..)[w + 1]).
get_skirt(piece_map) ==
    LET lo == x_min(piece_map)
        colmin(w) == CHOOSE y \in {piece_map[i][2] : i \in 1 .. 4} :
                        /\ \E i \in 1 .. 4 : piece_map[i] = <<w, y>>
                        /\ \A i \in 1 .. 4 : piece_map[i][1] = w => y <= piece_map[i][2]
    IN  [k \in 1 .. get_width(piece_map) |-> colmin(lo + k - 1)]

PieceDimensions(piece_map) ==
    [piece_map |-> piece_map,
     width     |-> get_width(piece_map),
     height    |-> get_height(piece_map),
     skirt     |-> get_skirt(piece_map)]

\* f32 -> i32 "as" cast of a value given in half units: truncation toward zero.
TruncHalf(v2) == IF v2 >= 0 THEN v2 \div 2 ELSE -((-v2) \div 2)

\* Mutant of RotateMap: the quarter turn goes the other way, (x, y) -> (-y, x).
RotateMap_counterclockwise(piece_map, origin2) ==
    [i \in 1 .. 4 |->
        LET x2 == 2 * piece_map[i][1] - origin2[1]
            y2 == 2 * piece_map[i][2] - origin2[2]
        IN  << TruncHalf((-y2) + origin2[1]), TruncHalf(x2 + origin2[1]) >>]

\* One step of get_rotated_piece_maps; origin2 is the f32 origin in half
\* units, <<2 * origin.0, 2 * origin.1>>.  The source adds origin.0 back to
\* both coordinates.
RotateMap(piece_map, origin2) ==
    [i \in 1 .. 4 |->
        LET x2 == 2 * piece_map[i][1] - origin2[1]
            y2 == 2 * piece_map[i][2] - origin2[2]
        IN  << TruncHalf(y2 + origin2[1]), TruncHalf((-x2) + origin2[1]) >>]

\* Indexed from 1: rotated_pieces[r as usize] is get_rotated_piece_maps(..)[r + 1].
get_rotated_piece_maps(piece_map, origin2) ==
    LET r1 == RotateMap(piece_map, origin2)
        r2 == RotateMap(r1, origin2)
        r3 == RotateMap(r2, origin2)
    IN  << piece_map, r1, r2, r3 >>

\* ------------------------------------------------------ piece.rs: Piece
CanonicalMap(kind) ==
    CASE kind = "I" -> PIECE_I
      [] kind = "J" -> PIECE_J
      [] kind = "L" -> PIECE_L
      [] kind = "O" -> PIECE_O
      [] kind = "S" -> PIECE_S
      [] kind = "T" -> PIECE_T
      [] kind = "Z" -> PIECE_Z

\* Mutant of Origin2: O turns about (1.0,1.0) like the other 3-wide kinds.
Origin2_without_O(kind) ==
    CASE kind = "I" -> <<3, 3>>
      [] kind \in {"J", "L", "O", "S", "T", "Z"} -> <<2, 2>>

\* origin of Piece::new in half units: (1.5,1.5), (0.5,0.5), (1.0,1.0)
Origin2(kind) ==
    CASE kind = "I" -> <<3, 3>>
      [] kind = "O" -> <<1, 1>>
      [] kind \in {"J", "L", "S", "T", "Z"} -> <<2, 2>>

SPAWN_TOP == 23

\* Mutant of Piece::new: the piece is placed under the top of the visible
\* rows instead of under the top of the grid.
Piece_new_in_view(kind) ==
    LET piece_dimensions == PieceDimensions(CanonicalMap(kind))
        xpos == (GRID_COLUMNS \div 2) - (piece_dimensions.width \div 2)
        ypos == GRID_VISIBLE_ROWS - piece_dimensions.height - y_min(piece_dimensions.piece_map)
    IN  [kind             |-> kind,
         rotated_pieces   |-> get_rotated_piece_maps(piece_dimensions.piece_map, Origin2(kind)),
         piece_dimensions |-> piece_dimensions,
         rotation         |-> Rot0,
         position         |-> [x |-> xpos, y |-> ypos]]

Piece_new(kind) ==
    LET piece_dimensions == PieceDimensions(CanonicalMap(kind))
        xpos == (GRID_COLUMNS \div 2) - (piece_dimensions.width \div 2)
        ypos == SPAWN_TOP - piece_dimensions.height - y_min(piece_dimensions.piece_map)
    IN  [kind             |-> kind,
         rotated_pieces   |-> get_rotated_piece_maps(piece_dimensions.piece_map, Origin2(kind)),
         piece_dimensions |-> piece_dimensions,
         rotation         |-> Rot0,
         position         |-> [x |-> xpos, y |-> ypos]]

\* Piece::rotate
rotate(piece, rot) ==
    LET r == RotationAdd(piece.rotation, rot)
    IN  [piece EXCEPT !.rotation = r,
                      !.piece_dimensions = PieceDimensions(piece.rotated_pieces[r + 1])]

Directions == {"Down", "Left", "Right"}

\* Piece::move_piece
move_piece(piece, direction) ==
    CASE direction = "Down"  -> [piece EXCEPT !.position.y = @ - 1]
      [] direction = "Left"  -> [piece EXCEPT !.position.x = @ - 1]
      [] direction = "Right" -> [piece EXCEPT !.position.x = @ + 1]

\* Piece::y_min
Piece_y_min(piece) == piece.position.y + y_min(piece.piece_dimensions.piece_map)

\* ------------------------------------------------------- grid.rs: Grid
Rows == 0 .. GRID_ROWS - 1
Cols == 0 .. GRID_COLUMNS - 1

Grid_new == [row \in Rows |-> [col \in Cols |-> None]]

\* The sum over a row of widths: 0 for a None cell, 1 for any other, from
\* column col on.
RECURSIVE RowSum(_, _)
RowSum(grid_row, col) ==
    IF col >= GRID_COLUMNS THEN 0
    ELSE (IF grid_row[col] = None THEN 0 ELSE 1) + RowSum(grid_row, col + 1)

\* Mutant of widths: the sum leaves out column 0.
widths_without_first_column(grid_map) ==
    [row \in Rows |-> RowSum(grid_map[row], 1)]

widths(grid_map) ==
    [row \in Rows |-> RowSum(grid_map[row], 0)]

\* The iterator of heights for one column, (0..below_row).rev() from row
\* on: rows >= GRID_ROWS are skipped, then rows whose cell is None; the
\* first row left gives row + 1, and unwrap_or(0) when none is left.
RECURSIVE ScanDown(_, _, _)
ScanDown(grid_map, col, row) ==
    IF row < 0 THEN 0
    ELSE IF row >= GRID_ROWS THEN ScanDown(grid_map, col, row - 1)
    ELSE IF grid_map[row][col] = None THEN ScanDown(grid_map, col, row - 1)
    ELSE row + 1

\* Mutant of heights: the scan starts at below_row itself.
heights_from_below_row(grid_map, below_row) ==
    [col \in Cols |-> ScanDown(grid_map, col, below_row)]

heights(grid_map, below_row) ==
    [col \in Cols |-> ScanDown(grid_map, col, below_row - 1)]

\* Mutant of is_within_bounds: the upper edges are off by one.
is_within_bounds_inclusive(x, y) == 0 <= x /\ x <= GRID_COLUMNS /\ 0 <= y /\ y <= GRID_ROWS

is_within_bounds(x, y) == 0 <= x /\ x < GRID_COLUMNS /\ 0 <= y /\ y < GRID_ROWS

set_cell(grid_map, x, y, kind) ==
    IF is_within_bounds(x, y) THEN [grid_map EXCEPT ![y][x] = kind] ELSE grid_map

\* get_cell asserts is_within_bounds(x, y); outside the grid the function
\* application below has no value, as the assertion has no return.
get_cell(grid_map, x, y) == grid_map[y][x]

\* Mutant of clear_row: the loop stops one column short.
clear_row_short(grid_map, row) ==
    [grid_map EXCEPT ![row] =
        [col \in Cols |-> IF col < GRID_COLUMNS - 1 THEN None ELSE @[col]]]

clear_row(grid_map, row) == [grid_map EXCEPT ![row] = [col \in Cols |-> None]]

overlaps(grid_map, piece) ==
    \E i \in 1 .. 4 :
        get_cell(grid_map,
                 piece.position.x + piece.piece_dimensions.piece_map[i][1],
                 piece.position.y + piece.piece_dimensions.piece_map[i][2]) # None


\* ----------------------------------------- piece.rs: the bag generator
\* piece::gen_piece_bag is called by gamestate.rs but its body is not among
\* the sources; it is modelled from the specification: "a freshly shuffled
\* full 7-kind bag".  The shuffles the model draws from are the first
\* NumShuffles rows of ShuffleTable.
NumShuffles == 2

ShuffleTable ==
    << << "Z", "S", "O", "T", "L", "J", "I" >>,
       << "Z", "O", "I", "S", "L", "J", "T" >>,
       << "I", "J", "L", "O", "S", "T", "Z" >>,
       << "S", "Z", "I", "T", "O", "L", "J" >> >>

gen_piece_bag == {ShuffleTable[i] : i \in 1 .. NumShuffles}

\* ------------------------------------------- gamestate.rs: GameState
\* A GameState value is a record
\*   [grid, active_piece, gameover, current_piece_bag, next_piece_bag, drawn]
\* whose last field is a history of the kinds freeze_piece has drawn from the
\* bags (the successive values of new_piece_kind); the code keeps no such field.

\* GameState::default; first is the outcome of rand::random(), current and
\* next the outcomes of the two gen_piece_bag() calls.
GameState_default(first, current, next) ==
    [grid              |-> Grid_new,
     active_piece      |-> Piece_new(first),
     gameover          |-> FALSE,
     current_piece_bag |-> current,
     next_piece_bag    |-> next,
     drawn             |-> << >>]

Min(S) == CHOOSE m \in S : \A other \in S : m <= other

Max(S) == CHOOSE m \in S : \A other \in S : other <= m

\* Mutant of distance_to_drop: the greatest of the per-column clearances.
distance_to_drop_greatest(gs) ==
    LET x    == gs.active_piece.position.x
        y    == gs.active_piece.position.y
        dims == gs.active_piece.piece_dimensions
        xmin == x_min(dims.piece_map)
        over == {w \in 0 .. dims.width - 1 :
                    0 <= x + w + xmin /\ x + w + xmin < GRID_COLUMNS}
    IN  Max({dims.skirt[w + 1] + y
                - heights(gs.grid, dims.skirt[w + 1] + y)[x + w + xmin] : w \in over})

\* Mutant of distance_to_drop: the clearance of a column is taken to the
\* top of the whole column, not to the terrain under the piece.
distance_to_drop_whole_column(gs) ==
    LET x    == gs.active_piece.position.x
        y    == gs.active_piece.position.y
        dims == gs.active_piece.piece_dimensions
        xmin == x_min(dims.piece_map)
        over == {w \in 0 .. dims.width - 1 :
                    0 <= x + w + xmin /\ x + w + xmin < GRID_COLUMNS}
    IN  Min({dims.skirt[w + 1] + y
                - heights(gs.grid, GRID_ROWS)[x + w + xmin] : w \in over})

\* Iterator::min().unwrap() over the per-column clearances; the unwrap has no
\* value when no column of the piece is over the grid (Min of the empty set).
distance_to_drop(gs) ==
    LET x    == gs.active_piece.position.x
        y    == gs.active_piece.position.y
        dims == gs.active_piece.piece_dimensions
        xmin == x_min(dims.piece_map)
        over == {w \in 0 .. dims.width - 1 :
                    0 <= x + w + xmin /\ x + w + xmin < GRID_COLUMNS}
    IN  Min({dims.skirt[w + 1] + y
                - heights(gs.grid, dims.skirt[w + 1] + y)[x + w + xmin] : w \in over})

\* Mutant of DrawPiece: the kind handed out is the first of the bag, the one
\* removed is the last.
DrawPiece_peeks_front(gs, fresh) ==
    LET refill  == gs.current_piece_bag = << >>
        current == IF refill THEN gs.next_piece_bag ELSE gs.current_piece_bag
    IN  [kind    |-> current[1],
         current |-> SubSeq(current, 1, Len(current) - 1),
         next    |-> IF refill THEN fresh ELSE gs.next_piece_bag]

\* Mutant of DrawPiece: the kind handed out is the last of the bag, the one
\* removed is the first.
DrawPiece_pops_front(gs, fresh) ==
    LET refill  == gs.current_piece_bag = << >>
        current == IF refill THEN gs.next_piece_bag ELSE gs.current_piece_bag
    IN  [kind    |-> current[Len(current)],
         current |-> SubSeq(current, 2, Len(current)),
         next    |-> IF refill THEN fresh ELSE gs.next_piece_bag]

\* Mutant of DrawPiece: on an empty bag the two bags are swapped and the
\* outcome of gen_piece_bag() is dropped.
DrawPiece_swaps_bags(gs, fresh) ==
    LET refill  == gs.current_piece_bag = << >>
        current == IF refill THEN gs.next_piece_bag ELSE gs.current_piece_bag
    IN  [kind    |-> current[Len(current)],
         current |-> SubSeq(current, 1, Len(current) - 1),
         next    |-> IF refill THEN gs.current_piece_bag ELSE gs.next_piece_bag]

\* The bag draw of freeze_piece (lines 51-55): pop the last kind of the
\* current bag; on an empty bag the next bag becomes the current one, fresh
\* (the outcome of gen_piece_bag()) becomes the next one, and the pop is
\* retried.
DrawPiece(gs, fresh) ==
    LET refill  == gs.current_piece_bag = << >>
        current == IF refill THEN gs.next_piece_bag ELSE gs.current_piece_bag
    IN  [kind    |-> current[Len(current)],
         current |-> SubSeq(current, 1, Len(current) - 1),
         next    |-> IF refill THEN fresh ELSE gs.next_piece_bag]

\* The for_each of freeze_piece (lines 44-50): the 4 cells are written in
\* map order through set_cell.
WritePiece(grid_map, piece) ==
    LET x == piece.position.x
        y == piece.position.y
        m == piece.piece_dimensions.piece_map
        w1 == set_cell(grid_map, x + m[1][1], y + m[1][2], piece.kind)
        w2 == set_cell(w1, x + m[2][1], y + m[2][2], piece.kind)
        w3 == set_cell(w2, x + m[3][1], y + m[3][2], piece.kind)
    IN  set_cell(w3, x + m[4][1], y + m[4][2], piece.kind)

\* Mutant of freeze_piece: the hidden-buffer test compares with GRID_ROWS.
freeze_piece_tests_grid_rows(gs, fresh) ==
    IF Piece_y_min(gs.active_piece) >= GRID_ROWS
    THEN [gs EXCEPT !.gameover = TRUE]
    ELSE LET written   == WritePiece(gs.grid, gs.active_piece)
             draw      == DrawPiece(gs, fresh)
             new_piece == Piece_new(draw.kind)
             bagged    == [gs EXCEPT !.grid = written,
                                     !.current_piece_bag = draw.current,
                                     !.next_piece_bag = draw.next,
                                     !.drawn = Append(@, draw.kind)]
         IN  IF overlaps(written, new_piece)
             THEN [bagged EXCEPT !.gameover = TRUE]
             ELSE [bagged EXCEPT !.active_piece = new_piece]

\* Mutant of freeze_piece: the new piece is activated without the overlaps test.
freeze_piece_always_activates(gs, fresh) ==
    IF Piece_y_min(gs.active_piece) >= GRID_VISIBLE_ROWS
    THEN [gs EXCEPT !.gameover = TRUE]
    ELSE LET written   == WritePiece(gs.grid, gs.active_piece)
             draw      == DrawPiece(gs, fresh)
             new_piece == Piece_new(draw.kind)
         IN  [gs EXCEPT !.grid = written,
                        !.current_piece_bag = draw.current,
                        !.next_piece_bag = draw.next,
                        !.drawn = Append(@, draw.kind),
                        !.active_piece = new_piece]

\* Mutant of freeze_piece: activating the new piece also resets the flag.
freeze_piece_resets_gameover(gs, fresh) ==
    IF Piece_y_min(gs.active_piece) >= GRID_VISIBLE_ROWS
    THEN [gs EXCEPT !.gameover = TRUE]
    ELSE LET written   == WritePiece(gs.grid, gs.active_piece)
             draw      == DrawPiece(gs, fresh)
             new_piece == Piece_new(draw.kind)
             bagged    == [gs EXCEPT !.grid = written,
                                     !.current_piece_bag = draw.current,
                                     !.next_piece_bag = draw.next,
                                     !.drawn = Append(@, draw.kind)]
         IN  IF overlaps(written, new_piece)
             THEN [bagged EXCEPT !.gameover = TRUE]
             ELSE [bagged EXCEPT !.active_piece = new_piece, !.gameover = FALSE]

\* Piece::new of each kind: the spawned piece depends on the kind alone.
NewPieces == [kind \in PieceKinds |-> Piece_new(kind)]

freeze_piece(gs, fresh) ==
    IF Piece_y_min(gs.active_piece) >= GRID_VISIBLE_ROWS
    THEN [gs EXCEPT !.gameover = TRUE]
    ELSE LET written   == WritePiece(gs.grid, gs.active_piece)
             draw      == DrawPiece(gs, fresh)
             new_piece == NewPieces[draw.kind]
             bagged    == [gs EXCEPT !.grid = written,
                                     !.current_piece_bag = draw.current,
                                     !.next_piece_bag = draw.next,
                                     !.drawn = Append(@, draw.kind)]
         IN  IF overlaps(written, new_piece)
             THEN [bagged EXCEPT !.gameover = TRUE]
             ELSE [bagged EXCEPT !.active_piece = new_piece]

\* Mutant of apply_gravity: a piece that cannot fall is left where it is.
apply_gravity_never_locks(gs, fresh) ==
    IF distance_to_drop(gs) = 0
    THEN gs
    ELSE [gs EXCEPT !.active_piece = move_piece(@, "Down")]

\* Mutant of apply_gravity: the piece also locks one row above its rest.
apply_gravity_locks_early(gs, fresh) ==
    IF distance_to_drop(gs) <= 1
    THEN freeze_piece(gs, fresh)
    ELSE [gs EXCEPT !.active_piece = move_piece(@, "Down")]

\* Mutant of apply_gravity: the piece falls without the distance_to_drop test.
apply_gravity_unchecked(gs, fresh) ==
    [gs EXCEPT !.active_piece = move_piece(@, "Down")]

apply_gravity(gs, fresh) ==
    IF distance_to_drop(gs) = 0
    THEN freeze_piece(gs, fresh)
    ELSE [gs EXCEPT !.active_piece = move_piece(@, "Down")]

\* Mutant of drop_piece: the piece is locked one row above where it lands.
drop_piece_one_short(gs, fresh) ==
    freeze_piece([gs EXCEPT !.active_piece.position.y =
                     @ - Max({0, distance_to_drop(gs) - 1})], fresh)

drop_piece(gs, fresh) ==
    freeze_piece([gs EXCEPT !.active_piece.position.y = @ - distance_to_drop(gs)], fresh)

\* Mutant of FirstPass: only the lowest full row is cleared; a full row above
\* it is treated as any other row.
RECURSIVE FirstPass_lowest_only(_, _, _, _, _)
FirstPass_lowest_only(w, row, rows_to_clear, new_map, drop_amounts) ==
    IF row >= GRID_ROWS
    THEN [new_map |-> new_map, drop_amounts |-> drop_amounts]
    ELSE IF w[row] = GRID_COLUMNS /\ rows_to_clear = 0
         THEN FirstPass_lowest_only(w, row + 1, rows_to_clear + 1,
                                    clear_row(new_map, row), Append(drop_amounts, 0))
         ELSE FirstPass_lowest_only(w, row + 1, rows_to_clear,
                                    new_map, Append(drop_amounts, rows_to_clear))

\* The first pass of clear_full_rows (lines 66-82), from row upwards: a full
\* row is cleared in the clone new_map, counted in rows_to_clear and given the
\* drop amount 0; any other row is given the count so far.  drop_amounts is
\* indexed from 1 here (the amount of row r is drop_amounts[r + 1]).
RECURSIVE FirstPass(_, _, _, _, _)
FirstPass(w, row, rows_to_clear, new_map, drop_amounts) ==
    IF row >= GRID_ROWS
    THEN [new_map |-> new_map, drop_amounts |-> drop_amounts]
    ELSE IF w[row] = GRID_COLUMNS
         THEN FirstPass(w, row + 1, rows_to_clear + 1,
                        clear_row(new_map, row), Append(drop_amounts, 0))
         ELSE FirstPass(w, row + 1, rows_to_clear,
                        new_map, Append(drop_amounts, rows_to_clear))

\* The inner for_each of the second pass (lines 88-94): the cells of row row
\* of the old grid are written through set_cell into row row - drop_amt of
\* the clone.
CopyRow(new_map, old_map, row, drop_amt) ==
    [new_map EXCEPT ![row - drop_amt] =
        [col \in Cols |->
            IF is_within_bounds(col, row - drop_amt)
            THEN get_cell(old_map, col, row)
            ELSE @[col]]]

\* The second pass of clear_full_rows (lines 83-95), from row upwards: the
\* rows with a positive drop amount are copied.
RECURSIVE SecondPass(_, _, _, _)
SecondPass(new_map, old_map, drop_amounts, row) ==
    IF row >= GRID_ROWS THEN new_map
    ELSE IF drop_amounts[row + 1] > 0
         THEN SecondPass(CopyRow(new_map, old_map, row, drop_amounts[row + 1]),
                         old_map, drop_amounts, row + 1)
         ELSE SecondPass(new_map, old_map, drop_amounts, row + 1)

clear_full_rows(gs) ==
    LET first == FirstPass(widths(gs.grid), 0, 0, gs.grid, << >>)
    IN  [gs EXCEPT !.grid = SecondPass(first.new_map, gs.grid, first.drop_amounts, 0)]

on_update(gs) == clear_full_rows(gs)

DirectionDelta(dir) ==
    CASE dir = "Left"  -> <<-1, 0>>
      [] dir = "Right" -> <<1, 0>>
      [] dir = "Down"  -> <<0, -1>>

\* The loop shared by is_valid_move and is_valid_rotation: every cell of the
\* map, shifted, is within bounds and (then) empty.
CellsFree(gs, piece_map, offset) ==
    \A i \in 1 .. 4 :
        LET x == gs.active_piece.position.x + piece_map[i][1] + offset[1]
            y == gs.active_piece.position.y + piece_map[i][2] + offset[2]
        IN  is_within_bounds(x, y) /\ get_cell(gs.grid, x, y) = None

\* Mutant of is_valid_move: only the bounds are tested, not the cells.
is_valid_move_bounds_only(gs, dir) ==
    \A i \in 1 .. 4 :
        is_within_bounds(
            gs.active_piece.position.x + gs.active_piece.piece_dimensions.piece_map[i][1]
                + DirectionDelta(dir)[1],
            gs.active_piece.position.y + gs.active_piece.piece_dimensions.piece_map[i][2]
                + DirectionDelta(dir)[2])

is_valid_move(gs, dir) ==
    CellsFree(gs, gs.active_piece.piece_dimensions.piece_map, DirectionDelta(dir))

\* Mutant of try_move: the translation is applied without is_valid_move.
try_move_unchecked(gs, dir) ==
    [gs EXCEPT !.active_piece = move_piece(@, dir)]

\* Mutant of try_move: a rejected translation ends the game.
try_move_rejected_ends_game(gs, dir) ==
    IF is_valid_move(gs, dir)
    THEN [gs EXCEPT !.active_piece = move_piece(@, dir)]
    ELSE [gs EXCEPT !.gameover = TRUE]

try_move(gs, dir) ==
    IF is_valid_move(gs, dir)
    THEN [gs EXCEPT !.active_piece = move_piece(@, dir)]
    ELSE gs

is_valid_rotation(gs, rot, offset) ==
    CellsFree(gs,
              gs.active_piece.rotated_pieces[RotationAdd(gs.active_piece.rotation, rot) + 1],
              offset)

\* The offset_list match of try_rotate; a transition between equal or
\* opposite rotation states is its unreachable!() arm and has no value.
KickOffsets(kind, from, to) ==
    IF kind = "I"
    THEN CASE from = Rot0   /\ to = Rot90  -> << <<-2, 0>>, <<1, 0>>, <<-2, -1>>, <<1, 2>> >>
           [] from = Rot90  /\ to = Rot0   -> << <<2, 0>>, <<-1, 0>>, <<2, 1>>, <<-1, -2>> >>
           [] from = Rot90  /\ to = Rot180 -> << <<-1, 0>>, <<2, 0>>, <<-1, 2>>, <<2, -1>> >>
           [] from = Rot180 /\ to = Rot90  -> << <<1, 0>>, <<-2, 0>>, <<1, -2>>, <<-2, 1>> >>
           [] from = Rot180 /\ to = Rot270 -> << <<2, 0>>, <<-1, 0>>, <<2, 1>>, <<-1, -2>> >>
           [] from = Rot270 /\ to = Rot180 -> << <<-2, 0>>, <<1, 0>>, <<-2, -1>>, <<1, 2>> >>
           [] from = Rot270 /\ to = Rot0   -> << <<1, 0>>, <<-2, 0>>, <<1, -2>>, <<-2, 1>> >>
           [] from = Rot0   /\ to = Rot270 -> << <<-1, 0>>, <<2, 0>>, <<-1, 2>>, <<2, -1>> >>
    ELSE CASE from = Rot0   /\ to = Rot90  -> << <<-1, 0>>, <<-1, 1>>, <<0, -2>>, <<-1, -2>> >>
           [] from = Rot90  /\ to = Rot0   -> << <<1, 0>>, <<1, -1>>, <<0, 2>>, <<1, 2>> >>
           [] from = Rot90  /\ to = Rot180 -> << <<1, 0>>, <<1, -1>>, <<0, 2>>, <<1, 2>> >>
           [] from = Rot180 /\ to = Rot90  -> << <<-1, 0>>, <<-1, 1>>, <<0, -2>>, <<-1, -2>> >>
           [] from = Rot180 /\ to = Rot270 -> << <<1, 0>>, <<1, 1>>, <<0, -2>>, <<1, -2>> >>
           [] from = Rot270 /\ to = Rot180 -> << <<-1, 0>>, <<-1, -1>>, <<0, 2>>, <<-1, 2>> >>
           [] from = Rot270 /\ to = Rot0   -> << <<-1, 0>>, <<-1, -1>>, <<0, 2>>, <<-1, 2>> >>
           [] from = Rot0   /\ to = Rot270 -> << <<1, 0>>, <<1, 1>>, <<0, -2>>, <<1, -2>> >>

\* Mutant of FirstValidKick: the loop does not break, the last valid offset wins.
LastValidKick(gs, rot, offset_list) ==
    LET valid == {i \in 1 .. Len(offset_list) : is_valid_rotation(gs, rot, offset_list[i])}
    IN  IF valid = {} THEN 0 ELSE Max(valid)

\* Mutant of FirstValidKick: only the first listed offset is tried.
FirstKickOnly(gs, rot, offset_list) ==
    IF is_valid_rotation(gs, rot, offset_list[1]) THEN 1 ELSE 0

\* The for loop of try_rotate (lines 197-204): the index of the offset the
\* loop breaks at, 0 when it runs to the end.
FirstValidKick(gs, rot, offset_list) ==
    LET valid == {i \in 1 .. Len(offset_list) : is_valid_rotation(gs, rot, offset_list[i])}
    IN  IF valid = {} THEN 0 ELSE Min(valid)

\* Mutant of try_rotate: when no offset is valid the piece is rotated in place.
try_rotate_forced(gs, rot) ==
    LET offset_list == KickOffsets(gs.active_piece.kind,
                                   gs.active_piece.rotation,
                                   RotationAdd(gs.active_piece.rotation, rot))
    IN  IF is_valid_rotation(gs, rot, <<0, 0>>)
        THEN [gs EXCEPT !.active_piece = rotate(@, rot)]
        ELSE LET k == FirstValidKick(gs, rot, offset_list)
             IN  IF k = 0 THEN [gs EXCEPT !.active_piece = rotate(@, rot)]
                 ELSE [gs EXCEPT !.active_piece =
                          rotate([@ EXCEPT !.position.x = @ + offset_list[k][1],
                                           !.position.y = @ + offset_list[k][2]], rot)]

try_rotate(gs, rot) ==
    LET offset_list == KickOffsets(gs.active_piece.kind,
                                   gs.active_piece.rotation,
                                   RotationAdd(gs.active_piece.rotation, rot))
    IN  IF is_valid_rotation(gs, rot, <<0, 0>>)
        THEN [gs EXCEPT !.active_piece = rotate(@, rot)]
        ELSE LET k == FirstValidKick(gs, rot, offset_list)
             IN  IF k = 0 THEN gs
                 ELSE [gs EXCEPT !.active_piece =
                          rotate([@ EXCEPT !.position.x = @ + offset_list[k][1],
                                           !.position.y = @ + offset_list[k][2]], rot)]

\* ------------------------------------------------------- controls.rs
Buttons == {"MoveDown", "MoveLeft", "MoveRight", "RotateClockwise", "Drop", "Quit"}

\* Mutant of on_button_pressed: Drop clears the full rows as soon as it has
\* locked the piece.
on_button_pressed_clears_rows(gs, button, fresh) ==
    CASE button = "Quit"            -> [gs EXCEPT !.gameover = TRUE]
      [] button = "MoveDown"        -> try_move(gs, "Down")
      [] button = "MoveLeft"        -> try_move(gs, "Left")
      [] button = "MoveRight"       -> try_move(gs, "Right")
      [] button = "Drop"            -> clear_full_rows(drop_piece(gs, fresh))
      [] button = "RotateClockwise" -> try_rotate(gs, Rot90)

on_button_pressed(gs, button, fresh) ==
    CASE button = "Quit"            -> [gs EXCEPT !.gameover = TRUE]
      [] button = "MoveDown"        -> try_move(gs, "Down")
      [] button = "MoveLeft"        -> try_move(gs, "Left")
      [] button = "MoveRight"       -> try_move(gs, "Right")
      [] button = "Drop"            -> drop_piece(gs, fresh)
      [] button = "RotateClockwise" -> try_rotate(gs, Rot90)


\* ------------------------------------------------------------ the host
\* The host (examples/terminal_game) owns one GameState and calls
\* on_button_pressed, apply_gravity and on_update on it.  A game of the model
\* is the outcome of the random draws of GameState::default together with a
\* plan: a sequence of calls the host issues first.  After (or instead of the
\* rest of) the plan the host issues up to MaxFree calls of its choice.
MaxFree == 3

Calls == {"apply_gravity", "on_update"} \cup Buttons

\* The plans are written with one letter per call.
CallOf(letter) ==
    CASE letter = "G" -> "apply_gravity"
      [] letter = "U" -> "on_update"
      [] letter = "D" -> "MoveDown"
      [] letter = "L" -> "MoveLeft"
      [] letter = "R" -> "MoveRight"
      [] letter = "T" -> "RotateClockwise"
      [] letter = "X" -> "Drop"
      [] letter = "Q" -> "Quit"

Script(letters) == [i \in 1 .. Len(letters) |-> CallOf(letters[i])]

Rep(letter, n) == [i \in 1 .. n |-> letter]

\* Thirteen pieces (one line each): two full rows at the bottom that are never
\* cleared, a tower in columns 8 and 9 and a vertical I on top of it, reaching
\* row 22; then on_update, and four more pieces.
PlanTower ==
    Script(<< "X", "X" >> \o
           << "L", "L", "L", "T", "X" >> \o
           << "R", "R", "T", "X" >> \o
           << "L", "L", "L", "L", "T", "L", "X" >> \o
           << "R", "R", "R", "R", "X" >> \o
           << "R", "R", "R", "T", "R", "X" >> \o
           << "R", "R", "R", "T", "R", "X" >> \o
           << "R", "R", "R", "T", "T", "T", "R", "X" >> \o
           << "R", "R", "R", "T", "R", "X" >> \o
           << "R", "R", "R", "T", "R", "X" >> \o
           << "R", "R", "R", "T", "R", "X" >> \o
           << "R", "R", "R", "T", "R", "R", "R", "R", "X", "U" >> \o
           << "L", "L", "L", "L", "X" >> \o
           << "L", "L", "L", "L", "X" >> \o
           << "L", "X", "X" >>)

\* Two full rows, an S lying on them with an overhang, a Z slid under the
\* overhang; then on_update.
PlanOverhang ==
    Script(<< "X", "X" >> \o
           << "L", "L", "L", "T", "X" >> \o
           << "R", "R", "T", "X" >> \o
           << "L", "L", "L", "L", "T", "L", "X" >> \o
           << "R", "R", "R", "R", "X" >> \o
           << "R", "T", "X" >> \o
           << "L", "L" >> \o Rep("D", 18) \o << "R", "U" >>)

\* Rotations of an I next to the left wall at the top of the grid.
PlanKickI1 ==
    Script(<< "L", "T", "T", "T", "L", "T" >>)

PlanKickI2 ==
    Script(<< "L", "L", "T", "T" >>)

\* A vertical piece against the right wall at the top of the grid.
PlanReject ==
    Script(<< "R", "R", "R", "T", "R", "T" >>)

\* A T against the left wall.
PlanKickT1 ==
    Script(<< "L", "L", "L", "L", "T", "L", "T" >>)

\* A piece moved down to the floor, pushed against it and rotated there.
PlanFloorI ==
    Script(Rep("D", 23) \o << "T", "D" >>)

PlanFloorJ ==
    Script(Rep("D", 21) \o << "T", "T", "D", "T", "D" >>)

\* A piece moved to the left wall and left to gravity until it locks.
PlanGravity ==
    Script(<< "L", "L", "L", "L" >> \o Rep("G", 22))

\* Every piece dropped where it spawns, until the stack reaches the top.
PlanStack ==
    Script(Rep("X", 13))

\* Eleven pieces dropped where they spawn, one dropped at the left, then an I
\* turned upright and dropped on the stack, into the cells where the next
\* piece spawns.
PlanSpawnBlocked ==
    Script(Rep("X", 11) \o << "L", "L", "L", "X" >> \o << "T", "R", "R", "X" >>)

ScriptedGames ==
    {[first |-> "I", current |-> ShuffleTable[1], next |-> ShuffleTable[2], plan |-> p] :
        p \in {PlanTower, PlanOverhang, PlanKickI1, PlanKickI2, PlanFloorI, PlanStack,
              PlanSpawnBlocked}}
    \cup
    {[first |-> "J", current |-> ShuffleTable[1], next |-> ShuffleTable[2], plan |-> p] :
        p \in {PlanReject, PlanFloorJ}}
    \cup
    {[first |-> "T", current |-> ShuffleTable[1], next |-> ShuffleTable[2], plan |-> PlanKickT1],
     [first |-> "L", current |-> ShuffleTable[2], next |-> ShuffleTable[1], plan |-> PlanGravity]}

Games ==
    {[first |-> k, current |-> c, next |-> n, plan |-> << >>] :
        k \in PieceKinds, c \in gen_piece_bag, n \in gen_piece_bag}
    \cup ScriptedGames

VARIABLES
    grid,               \* GameState.grid.grid_map
    active_piece,       \* GameState.active_piece
    gameover,           \* GameState.gameover
    current_piece_bag,  \* GameState.current_piece_bag
    next_piece_bag,     \* GameState.next_piece_bag
    call,               \* the call the host issued last ("default" at first)
    pre,                \* the GameState that call was issued on
    drawn,              \* history: the kinds drawn from the bags so far, in order
    plan,               \* the planned calls still to be issued
    free,               \* the number of unplanned calls the host may still issue
    spin,               \* history: the active piece before each of the (up to 4)
                        \* RotateClockwise calls in a row that were issued last
    arg                 \* the arguments of the last call made on the Grid itself
                        \* (<< >> when the last call was made on the GameState)

vars == << grid, active_piece, gameover, current_piece_bag, next_piece_bag,
           call, pre, drawn, plan, free, spin, arg >>

Self ==
    [grid              |-> grid,
     active_piece      |-> active_piece,
     gameover          |-> gameover,
     current_piece_bag |-> current_piece_bag,
     next_piece_bag    |-> next_piece_bag,
     drawn             |-> drawn]

Init ==
    \E g \in Games :
        LET gs == GameState_default(g.first, g.current, g.next)
        IN  /\ grid = gs.grid
            /\ active_piece = gs.active_piece
            /\ gameover = gs.gameover
            /\ current_piece_bag = gs.current_piece_bag
            /\ next_piece_bag = gs.next_piece_bag
            /\ call = "default"
            /\ pre = gs
            /\ drawn = gs.drawn
            /\ plan = g.plan
            /\ free = MaxFree
            /\ spin = << >>
            /\ arg = << >>

\* The outcomes gen_piece_bag() can have in a call on gs: it is called only
\* when the current bag is empty.
Fresh(gs) == IF gs.current_piece_bag = << >> THEN gen_piece_bag ELSE {<< >>}

\* The host issues call c: the next call of its plan, or an unplanned one.
Host(c) ==
    LET planned == plan # << >> /\ Head(plan) = c
    IN  /\ IF planned THEN TRUE ELSE free > 0
        /\ plan' = IF planned THEN Tail(plan) ELSE << >>
        /\ free' = IF planned THEN free ELSE free - 1

\* The last 4 elements of a sequence.
LastFour(seq) == IF Len(seq) <= 4 THEN seq ELSE SubSeq(seq, Len(seq) - 3, Len(seq))

\* The call c returns with the GameState new.
Return(c, new) ==
    /\ grid' = new.grid
    /\ active_piece' = new.active_piece
    /\ gameover' = new.gameover
    /\ current_piece_bag' = new.current_piece_bag
    /\ next_piece_bag' = new.next_piece_bag
    /\ call' = c
    /\ pre' = Self
    /\ drawn' = new.drawn
    /\ spin' = IF c = "RotateClockwise"
               THEN LastFour(Append(spin, active_piece))
               ELSE << >>
    /\ arg' = << >>

ApplyGravity ==
    /\ Host("apply_gravity")
    /\ \E fresh \in Fresh(Self) :
        Return("apply_gravity", apply_gravity(Self, fresh))

OnUpdate ==
    /\ Host("on_update")
    /\ Return("on_update", on_update(Self))

OnButtonPressed ==
    \E button \in Buttons :
        /\ Host(button)
        /\ \E fresh \in Fresh(Self) :
            Return(button, on_button_pressed(Self, button, fresh))

Next == ApplyGravity \/ OnUpdate \/ OnButtonPressed

Spec == Init /\ [][Next]_vars

\* ------------------------------------------- the host on an empty grid
\* A second specification: a fresh game of any first kind in which the host
\* issues calls without limit for as long as the grid holds no locked cell
\* (the piece is moved, rotated and lowered over the whole empty grid, and
\* the game ends with the call that locks it).
InitEmptyGrid ==
    \E first \in PieceKinds :
        LET gs == GameState_default(first, ShuffleTable[1], ShuffleTable[2])
        IN  /\ grid = gs.grid
            /\ active_piece = gs.active_piece
            /\ gameover = gs.gameover
            /\ current_piece_bag = gs.current_piece_bag
            /\ next_piece_bag = gs.next_piece_bag
            /\ call = "default"
            /\ pre = gs
            /\ drawn = gs.drawn
            /\ plan = << >>
            /\ free = 0
            /\ spin = << >>
            /\ arg = << >>

GravityOnEmptyGrid ==
    /\ grid = Grid_new
    /\ UNCHANGED << plan, free >>
    /\ \E fresh \in Fresh(Self) :
        Return("apply_gravity", apply_gravity(Self, fresh))

UpdateOnEmptyGrid ==
    /\ grid = Grid_new
    /\ UNCHANGED << plan, free >>
    /\ Return("on_update", on_update(Self))

ButtonOnEmptyGrid ==
    \E button \in Buttons \ {"Quit"} :
        /\ grid = Grid_new
        /\ UNCHANGED << plan, free >>
        /\ \E fresh \in Fresh(Self) :
            Return(button, on_button_pressed(Self, button, fresh))

NextEmptyGrid == GravityOnEmptyGrid \/ UpdateOnEmptyGrid \/ ButtonOnEmptyGrid

SpecEmptyGrid == InitEmptyGrid /\ [][NextEmptyGrid]_vars


\* ------------------------------------------- the host without a player
\* A fourth specification: the loop of the host (run: while is_running(),
\* on_update) with no key ever pressed.  Each pass of the loop calls
\* apply_gravity when the gravity timer has run out and then on_update, so
\* between two ticks there is any number of on_update calls, and a tick
\* always comes: weak fairness on the tick.  The loop ends at gameover.
InitNoInput ==
    \E first \in PieceKinds, current \in gen_piece_bag, next \in gen_piece_bag :
        LET gs == GameState_default(first, current, next)
        IN  /\ grid = gs.grid
            /\ active_piece = gs.active_piece
            /\ gameover = gs.gameover
            /\ current_piece_bag = gs.current_piece_bag
            /\ next_piece_bag = gs.next_piece_bag
            /\ call = "default"
            /\ pre = gs
            /\ drawn = gs.drawn
            /\ plan = << >>
            /\ free = 0
            /\ spin = << >>
            /\ arg = << >>

GravityTick ==
    /\ ~gameover
    /\ UNCHANGED << plan, free >>
    /\ \E fresh \in Fresh(Self) :
        \E new \in {apply_gravity(Self, fresh)} :
            Return("apply_gravity", new)

UpdateTick ==
    /\ ~gameover
    /\ UNCHANGED << plan, free >>
    /\ Return("on_update", on_update(Self))

NextNoInput == GravityTick \/ UpdateTick

SpecNoInput == InitNoInput /\ [][NextNoInput]_vars /\ WF_vars(GravityTick)


\* ------------------------------------------------- the Grid on its own
\* A third specification: a Grid built as the tests of grid.rs build it
\* (Grid::new(), or Grid::from of a prepared map) on which a caller makes up
\* to MaxGridCalls calls of set_cell and clear_row, or runs the loop of the
\* row_clearing test.  The GameState around the grid is a fresh one and
\* stays as it is.
MaxGridCalls == 2

\* Grid::from([[PieceKind::I; GRID_COLUMNS]; GRID_ROWS]), the map of the
\* full_grid and row_clearing tests.
FullGrid == [row \in Rows |-> [col \in Cols |-> "I"]]

\* Grid::from of a map with holes and overhangs in every column.
DiagonalGrid ==
    [row \in Rows |-> [col \in Cols |-> IF (row + col) % 3 = 0 THEN "T" ELSE None]]

GridMaps == {Grid_new, FullGrid, DiagonalGrid}

\* The coordinates and kinds the caller passes to set_cell: the corners and
\* the first column of the grid, and one step outside each edge.
SetCellXs == {-1, 0, GRID_COLUMNS - 1, GRID_COLUMNS}
SetCellYs == {-1, 0, 1, 2, GRID_ROWS - 1, GRID_ROWS}
SetCellKinds == {None, "I"}

InitGrid ==
    \E grid_map \in GridMaps :
        LET gs == GameState_default("I", ShuffleTable[1], ShuffleTable[2])
        IN  /\ grid = grid_map
            /\ active_piece = gs.active_piece
            /\ gameover = gs.gameover
            /\ current_piece_bag = gs.current_piece_bag
            /\ next_piece_bag = gs.next_piece_bag
            /\ call = "default"
            /\ pre = [gs EXCEPT !.grid = grid_map]
            /\ drawn = gs.drawn
            /\ plan = << >>
            /\ free = MaxGridCalls
            /\ spin = << >>
            /\ arg = << >>

\* A call c on the grid returns with the map new_map.
GridReturn(c, a, new_map) ==
    /\ free > 0
    /\ free' = free - 1
    /\ grid' = new_map
    /\ call' = c
    /\ arg' = a
    /\ pre' = Self
    /\ UNCHANGED << active_piece, gameover, current_piece_bag, next_piece_bag,
                    drawn, plan, spin >>

SetCell ==
    \E x \in SetCellXs, y \in SetCellYs, kind \in SetCellKinds :
        GridReturn("set_cell", [x |-> x, y |-> y, kind |-> kind],
                   set_cell(grid, x, y, kind))

ClearRow ==
    \E row \in Rows :
        GridReturn("clear_row", [row |-> row], clear_row(grid, row))

\* The loop of the row_clearing test: clear_row(row) for row in 0..GRID_ROWS.
RECURSIVE ClearRowsFrom(_, _)
ClearRowsFrom(grid_map, row) ==
    IF row >= GRID_ROWS THEN grid_map
    ELSE ClearRowsFrom(clear_row(grid_map, row), row + 1)

ClearEveryRow ==
    GridReturn("row_clearing", << >>, ClearRowsFrom(grid, 0))

NextGrid == SetCell \/ ClearRow \/ ClearEveryRow

SpecGrid == InitGrid /\ [][NextGrid]_vars


\* ------------------------------------------------------------ the claims
\* The absolute cells of a piece map placed at position pos.
CellsAt(piece_map, pos) ==
    {<< pos.x + piece_map[i][1], pos.y + piece_map[i][2] >> : i \in 1 .. 4}

PieceCells(piece) == CellsAt(piece.piece_dimensions.piece_map, piece.position)

InGrid(cell) == cell[1] \in Cols /\ cell[2] \in Rows

OccupiedCells(grid_map) ==
    {cell \in Cols \X Rows : grid_map[cell[2]][cell[1]] # None}

\* The cells are all on the grid and none of them is occupied.
Fits(grid_map, cells) ==
    \A cell \in cells : InGrid(cell) /\ cell \notin OccupiedCells(grid_map)

Called == call # "default"

\* C1 (as claimed): while gameover is false, none of the active piece's 4
\* absolute cells is an occupied grid cell.
C1_ActivePieceNeverOverlaps ==
    ~gameover => PieceCells(active_piece) \cap OccupiedCells(grid) = {}

\* C2: in every reachable state all 4 absolute cells of the active piece lie
\* inside [0, GRID_COLUMNS) x [0, GRID_ROWS).
C2_ActivePieceInBounds ==
    /\ Cardinality(PieceCells(active_piece)) = 4
    /\ \A cell \in PieceCells(active_piece) :
          0 <= cell[1] /\ cell[1] < GRID_COLUMNS /\ 0 <= cell[2] /\ cell[2] < GRID_ROWS

\* C2 witness: a gravity tick has just brought the piece onto the floor, with
\* a cell in the leftmost column.
C2_Witness ==
    /\ call = "apply_gravity"
    /\ active_piece.position.y = pre.active_piece.position.y - 1
    /\ \E cell \in PieceCells(active_piece) : cell[2] = 0
    /\ \E cell \in PieceCells(active_piece) : cell[1] = 0

\* C3 (as claimed): once gameover is true, every call leaves the whole
\* GameState (grid, active piece, both bags, gameover) unchanged.
C3_NoOpAfterGameover ==
    (Called /\ pre.gameover) => Self = pre

\* C4: once the gameover flag is true it stays true, whatever call follows.
C4_GameoverIsOneWay ==
    (Called /\ pre.gameover) => gameover

\* C4 witness: after gameover a Drop has locked a piece and activated the
\* next one, and the flag is still set.
C4_Witness ==
    /\ call = "Drop"
    /\ pre.gameover
    /\ gameover
    /\ Len(drawn) = Len(pre.drawn) + 1
    /\ active_piece # pre.active_piece

\* ---- rotation (C5, C6)
\* The map RotateClockwise turns the active piece of gs into, the kick table
\* entry that applies, and whether that map fits at position + offset.
ClockwiseMap(gs) ==
    gs.active_piece.rotated_pieces[((gs.active_piece.rotation + 1) % 4) + 1]

ClockwiseTable(gs) ==
    KickOffsets(gs.active_piece.kind, gs.active_piece.rotation,
                (gs.active_piece.rotation + 1) % 4)

FitsAt(gs, offset) ==
    Fits(gs.grid, CellsAt(ClockwiseMap(gs),
                          [x |-> gs.active_piece.position.x + offset[1],
                           y |-> gs.active_piece.position.y + offset[2]]))

PositionShift ==
    << active_piece.position.x - pre.active_piece.position.x,
       active_piece.position.y - pre.active_piece.position.y >>

RotationCommitted ==
    /\ active_piece.rotation = (pre.active_piece.rotation + 1) % 4
    /\ active_piece.piece_dimensions.piece_map = ClockwiseMap(pre)

\* C5: RotateClockwise tries offset (0,0) first and then the 4 offsets of the
\* applicable table entry in listed order: a position shift is committed only
\* together with the rotation; the shift is (0,0) or a listed offset at which
\* the rotated map fits; a shift equal to the i-th listed offset means that
\* the rotated map fitted neither at (0,0) nor at any listed offset before the
\* i-th; and when the map fits at (0,0) the rotation commits with no shift.
C5_KicksInListedOrder ==
    call = "RotateClockwise" =>
        LET table == ClockwiseTable(pre)
        IN  /\ RotationCommitted \/ active_piece = pre.active_piece
            /\ RotationCommitted =>
                  /\ PositionShift \in {<<0, 0>>} \cup {table[i] : i \in 1 .. 4}
                  /\ FitsAt(pre, PositionShift)
            /\ \A i \in 1 .. 4 :
                  (RotationCommitted /\ PositionShift = table[i]) =>
                      /\ ~FitsAt(pre, <<0, 0>>)
                      /\ \A j \in 1 .. i - 1 : ~FitsAt(pre, table[j])
            /\ FitsAt(pre, <<0, 0>>) => RotationCommitted /\ PositionShift = <<0, 0>>

\* C5 witness: a rotation has committed with the second listed offset while a
\* later listed offset would have fitted as well.
C5_Witness ==
    /\ call = "RotateClockwise"
    /\ RotationCommitted
    /\ PositionShift = ClockwiseTable(pre)[2]
    /\ \E j \in 3 .. 4 : FitsAt(pre, ClockwiseTable(pre)[j])

\* C6: when the rotated map fits neither at (0,0) nor at any of the 4 listed
\* offsets, RotateClockwise leaves the whole state unchanged.
C6_RejectedRotationIsNoOp ==
    ( /\ call = "RotateClockwise"
      /\ ~FitsAt(pre, <<0, 0>>)
      /\ \A i \in 1 .. 4 : ~FitsAt(pre, ClockwiseTable(pre)[i]) )
    => Self = pre

\* C6 witness: a RotateClockwise has been issued on a piece whose rotated map
\* fits at none of the 5 offsets, and neither rotation nor position changed.
C6_Witness ==
    /\ call = "RotateClockwise"
    /\ ~FitsAt(pre, <<0, 0>>)
    /\ \A i \in 1 .. 4 : ~FitsAt(pre, ClockwiseTable(pre)[i])
    /\ active_piece.rotation = pre.active_piece.rotation
    /\ active_piece.position = pre.active_piece.position

\* ---- translation (C7)
MoveCalls == {"MoveLeft", "MoveRight", "MoveDown"}

UnitDelta(c) ==
    CASE c = "MoveLeft"  -> <<-1, 0>>
      [] c = "MoveRight" -> <<1, 0>>
      [] c = "MoveDown"  -> <<0, -1>>

\* The cells of the active piece of gs translated by delta.
TranslatedCells(gs, delta) ==
    CellsAt(gs.active_piece.piece_dimensions.piece_map,
            [x |-> gs.active_piece.position.x + delta[1],
             y |-> gs.active_piece.position.y + delta[2]])

\* C7: for MoveLeft, MoveRight and MoveDown, if every cell of the active
\* piece translated by the unit delta is in bounds and unoccupied, the
\* position changes by exactly that delta and nothing else changes;
\* otherwise the whole state is unchanged.
C7_MoveAppliedOrRejected ==
    call \in MoveCalls =>
        LET delta == UnitDelta(call)
        IN  IF Fits(pre.grid, TranslatedCells(pre, delta))
            THEN Self = [pre EXCEPT !.active_piece.position.x = @ + delta[1],
                                    !.active_piece.position.y = @ + delta[2]]
            ELSE Self = pre

\* C7 witness: MoveLeft has been issued with the leftmost cell of the piece
\* in column 0, and the position is unchanged.
C7_Witness ==
    /\ call = "MoveLeft"
    /\ \E cell \in PieceCells(pre.active_piece) : cell[1] = 0
    /\ active_piece.position = pre.active_piece.position

\* ---- line clearing (C8, C9)
FullRows(grid_map) ==
    {row \in Rows : \A col \in Cols : grid_map[row][col] # None}

\* The non-full rows of grid_map in their order, each moved down by the
\* number of full rows below it, followed by empty rows.
Compacted(grid_map) ==
    LET kept == Rows \ FullRows(grid_map)
        below(row) == Cardinality({other \in kept : other < row})
    IN  [target \in Rows |->
            IF target < Cardinality(kept)
            THEN grid_map[CHOOSE row \in kept : below(row) = target]
            ELSE [col \in Cols |-> None]]

\* C8 (as claimed): after on_update the grid is the previous grid with its
\* full rows removed, the other rows moved down in their order, and only
\* empty rows above them.
C8_RowsCompacted ==
    call = "on_update" => grid = Compacted(pre.grid)

\* C9 (as claimed): the number of occupied cells after on_update is the
\* number before it minus GRID_COLUMNS for each row that was full.
C9_CellCount ==
    call = "on_update" =>
        Cardinality(OccupiedCells(grid)) =
            Cardinality(OccupiedCells(pre.grid))
                - GRID_COLUMNS * Cardinality(FullRows(pre.grid))

\* ---- the bags (C10)
\* C10: the sequence of kinds drawn by successive locks, cut into windows of
\* 7 from the first draw on, has each of the 7 kinds exactly once in every
\* complete window, and no kind twice in the window being filled.
C10_BagWindows ==
    \A w \in 0 .. (Len(drawn) \div 7) :
        LET lo == 7 * w + 1
            hi == IF 7 * w + 7 <= Len(drawn) THEN 7 * w + 7 ELSE Len(drawn)
        IN  /\ \A i, j \in lo .. hi : drawn[i] = drawn[j] => i = j
            /\ hi = 7 * w + 7 => {drawn[i] : i \in lo .. hi} = PieceKinds

\* C10 witness: a lock has just made the 15th draw, the first from a bag
\* that gen_piece_bag produced during the game.
C10_Witness ==
    /\ call = "Drop"
    /\ Len(drawn) = 15
    /\ Len(pre.drawn) = 14

\* The number of draws of kind among drawn[lo .. hi].
CountDrawn(kind, lo, hi) == Cardinality({i \in lo .. hi : drawn[i] = kind})

\* C11 (as claimed): every run of 12 consecutive draws contains at least 2
\* pieces of each of the 7 kinds.
C11_TwoOfEachInTwelve ==
    \A lo \in 1 .. Len(drawn) - 11 :
        \A kind \in PieceKinds : CountDrawn(kind, lo, lo + 11) >= 2

\* C11 (amended): every run of 13 consecutive draws contains at least 1
\* piece of each of the 7 kinds.
C11_EachKindInThirteen ==
    \A lo \in 1 .. Len(drawn) - 12 :
        \A kind \in PieceKinds : CountDrawn(kind, lo, lo + 12) >= 1

\* C11 witness: 17 draws have been made, so that runs of 13 start inside the
\* first bag and end inside the third, and one of them holds a kind only once.
C11_Witness ==
    /\ Len(drawn) = 17
    /\ \E lo \in 1 .. 5 : \E kind \in PieceKinds : CountDrawn(kind, lo, lo + 12) = 1

\* ---- gravity and locking (C12 - C16)
\* C12: apply_gravity does one of two things: when distance_to_drop() is 0 it
\* is freeze_piece at the current position; otherwise y decreases by exactly
\* 1 and x, rotation, map, grid, bags and gameover are unchanged.
C12_GravityLocksOrFalls ==
    call = "apply_gravity" =>
        IF distance_to_drop(pre) = 0
        THEN \E fresh \in Fresh(pre) : Self = freeze_piece(pre, fresh)
        ELSE Self = [pre EXCEPT !.active_piece.position.y = @ - 1]

\* C12 witness: a gravity tick on a piece resting on locked cells has locked
\* it where it was.
C12_Witness ==
    /\ call = "apply_gravity"
    /\ distance_to_drop(pre) = 0
    /\ Cardinality(OccupiedCells(pre.grid)) > 0
    /\ PieceCells(pre.active_piece) \subseteq OccupiedCells(grid)
    /\ Len(drawn) = Len(pre.drawn) + 1

\* freeze_piece has run in the last call: Drop always runs it, apply_gravity
\* runs it when distance_to_drop() is 0.
LockRan ==
    \/ call = "Drop"
    \/ call = "apply_gravity" /\ distance_to_drop(pre) = 0

\* The piece freeze_piece ran on: the active piece of the pre-state, moved
\* down by distance_to_drop() first when the call is Drop.
LockedPiece ==
    IF call = "Drop"
    THEN [pre.active_piece EXCEPT !.position.y = @ - distance_to_drop(pre)]
    ELSE pre.active_piece

LowestRow(piece) == Min({cell[2] : cell \in PieceCells(piece)})

\* The cells whose content differs between two grids.
ChangedCells(old_map, new_map) ==
    {cell \in Cols \X Rows : old_map[cell[2]][cell[1]] # new_map[cell[2]][cell[1]]}

\* The number of kinds left in the two bags, counting a bag generated by the
\* call as 7 more.
BagTotal(gs) == Len(gs.current_piece_bag) + Len(gs.next_piece_bag)

\* C13 (as claimed): when freeze_piece runs on a piece whose lowest row is
\* below GRID_VISIBLE_ROWS, the grid changes in exactly the piece's 4 cells,
\* each now holding the piece's kind, the occupied-cell count grows by 4, and
\* exactly one kind is drawn from the bags.
C13_LockWritesFourCells ==
    (LockRan /\ LowestRow(LockedPiece) < GRID_VISIBLE_ROWS) =>
        /\ ChangedCells(pre.grid, grid) = PieceCells(LockedPiece)
        /\ \A cell \in PieceCells(LockedPiece) : grid[cell[2]][cell[1]] = LockedPiece.kind
        /\ Cardinality(OccupiedCells(grid)) = Cardinality(OccupiedCells(pre.grid)) + 4
        /\ Len(drawn) = Len(pre.drawn) + 1
        /\ BagTotal(Self) = BagTotal(pre) - 1
              + (IF pre.current_piece_bag = << >> THEN 7 ELSE 0)

\* C14: when freeze_piece runs on a piece whose lowest row is at or above
\* GRID_VISIBLE_ROWS, it sets gameover and stops: the grid, the bags and the
\* draw history are unchanged and the active piece is still the piece it ran on.
C14_HiddenLockIsGameover ==
    (LockRan /\ LowestRow(LockedPiece) >= GRID_VISIBLE_ROWS) =>
        /\ gameover
        /\ grid = pre.grid
        /\ current_piece_bag = pre.current_piece_bag
        /\ next_piece_bag = pre.next_piece_bag
        /\ drawn = pre.drawn
        /\ active_piece = LockedPiece

\* C14 witness: a Drop on a stack that reaches the hidden rows has ended the
\* game that was still running, with the piece lying on row 20 or above.
C14_Witness ==
    /\ call = "Drop"
    /\ ~pre.gameover
    /\ gameover
    /\ LowestRow(active_piece) >= GRID_VISIBLE_ROWS
    /\ grid = pre.grid
    /\ Cardinality(OccupiedCells(grid)) > 0

\* The piece of the kind drawn last, as Piece::new makes it: at its spawn
\* position, in rotation Rot0.
SpawnedPiece == Piece_new(drawn[Len(drawn)])

\* C15: after a lock that writes the piece into the grid, the newly drawn
\* piece is the active piece, at its spawn position and in rotation 0, if and
\* only if none of its 4 spawn cells is occupied; otherwise gameover is set
\* and the piece that was locked stays the active piece.
C15_SpawnOrGameover ==
    (LockRan /\ LowestRow(LockedPiece) < GRID_VISIBLE_ROWS) =>
        IF PieceCells(SpawnedPiece) \cap OccupiedCells(grid) = {}
        THEN /\ active_piece = SpawnedPiece
             /\ active_piece.rotation = 0
             /\ gameover = pre.gameover
        ELSE /\ gameover
             /\ active_piece = LockedPiece
             /\ active_piece # SpawnedPiece

\* C15 witness: a Drop has locked a piece into cells where the newly drawn
\* piece spawns; the game, still running before, is over and the drawn piece
\* is not active.
C15_Witness ==
    /\ call = "Drop"
    /\ ~pre.gameover
    /\ gameover
    /\ Len(drawn) = Len(pre.drawn) + 1
    /\ PieceCells(SpawnedPiece) \cap OccupiedCells(grid) # {}
    /\ active_piece.kind = pre.active_piece.kind
    /\ active_piece.position # SpawnedPiece.position

\* C16: apply_gravity and on_button_pressed never empty an occupied cell and
\* never move a cell's content: the only cells they change are the cells of a
\* piece they lock, which then hold that piece's kind; every occupied cell
\* stays occupied and every full row stays full.
C16_ClearingIsDeferred ==
    (Called /\ call # "on_update") =>
        /\ OccupiedCells(pre.grid) \subseteq OccupiedCells(grid)
        /\ FullRows(pre.grid) \subseteq FullRows(grid)
        /\ \A cell \in ChangedCells(pre.grid, grid) :
              /\ LockRan
              /\ cell \in PieceCells(LockedPiece)
              /\ grid[cell[2]][cell[1]] = LockedPiece.kind

\* C16 witness: a Drop has completed two rows at once and they are still in
\* the grid when the call returns.
C16_Witness ==
    /\ call = "Drop"
    /\ FullRows(pre.grid) = {}
    /\ Cardinality(FullRows(grid)) = 2

\* ---- the empty grid (C17, C18)
\* C17: on a grid with no occupied cell distance_to_drop() is the lowest row
\* of the active piece, and after a Drop from there the cells written into
\* the grid are 4 cells of the piece's columns with lowest row 0.
C17_DropToFloorOnEmptyGrid ==
    /\ grid = Grid_new => distance_to_drop(Self) = LowestRow(active_piece)
    /\ (call = "Drop" /\ pre.grid = Grid_new) =>
          /\ Cardinality(OccupiedCells(grid)) = 4
          /\ Min({cell[2] : cell \in OccupiedCells(grid)}) = 0
          /\ OccupiedCells(grid) =
                {<< cell[1], cell[2] - LowestRow(pre.active_piece) >> :
                    cell \in PieceCells(pre.active_piece)}

\* C17 witness: an upright piece standing against the right wall, several
\* rows above the floor, has been dropped.
C17_Witness ==
    /\ call = "Drop"
    /\ pre.grid = Grid_new
    /\ pre.active_piece.rotation = 1
    /\ LowestRow(pre.active_piece) > 5
    /\ \E cell \in PieceCells(pre.active_piece) : cell[1] = GRID_COLUMNS - 1
    /\ \E cell \in OccupiedCells(grid) : cell[2] = 2

\* C18 (as claimed): on a grid with no occupied cell, four RotateClockwise
\* presses in a row bring the piece back to the cells and the rotation state
\* it had before the first of them.
C18_FourTurnsReturn ==
    (Len(spin) = 4 /\ grid = Grid_new) =>
        /\ PieceCells(active_piece) = PieceCells(spin[1])
        /\ active_piece.rotation = spin[1].rotation

\* ---- fatal assertions and panics (C19)
\* The transitions the offset_list match of try_rotate lists (for both kind
\* classes); any other transition reaches its unreachable!() arm.
ListedTransitions ==
    { <<Rot0, Rot90>>, <<Rot90, Rot0>>, <<Rot90, Rot180>>, <<Rot180, Rot90>>,
      <<Rot180, Rot270>>, <<Rot270, Rot180>>, <<Rot270, Rot0>>, <<Rot0, Rot270>> }

\* The columns of the active piece that distance_to_drop keeps (those over
\* the grid); it unwraps the minimum over them.
ColumnsOverGrid(gs) ==
    {cell[1] : cell \in PieceCells(gs.active_piece)} \cap Cols

\* The kind the next lock would draw: the last of the current bag, or of the
\* next bag when the current one is empty; None when both are empty (the
\* second pop then unwraps nothing).
NextDraw(gs) ==
    IF gs.current_piece_bag # << >>
    THEN gs.current_piece_bag[Len(gs.current_piece_bag)]
    ELSE IF gs.next_piece_bag # << >>
         THEN gs.next_piece_bag[Len(gs.next_piece_bag)]
         ELSE None

\* C19: in no reachable state can a call reach a fatal assertion or a panic:
\* distance_to_drop has a column to take the minimum over; the bag pop has a
\* kind to draw; the piece the lock would spawn has its 4 cells on the grid
\* (overlaps reads them through get_cell); the clockwise transition of the
\* active piece is one the kick table lists; every column of the active map
\* between its least and greatest x holds a cell (get_skirt unwraps its
\* lowest), and the skirt has one entry per column distance_to_drop indexes.
C19_NoFatalAssertion ==
    /\ ColumnsOverGrid(Self) # {}
    /\ NextDraw(Self) \in PieceKinds
    /\ \A cell \in PieceCells(Piece_new(NextDraw(Self))) : InGrid(cell)
    /\ << active_piece.rotation, (active_piece.rotation + 1) % 4 >> \in ListedTransitions
    /\ LET piece_map == active_piece.piece_dimensions.piece_map
           xs        == {piece_map[i][1] : i \in 1 .. 4}
       IN  /\ \A w \in Min(xs) .. Max(xs) : w \in xs
           /\ Len(active_piece.piece_dimensions.skirt) = active_piece.piece_dimensions.width
           /\ active_piece.piece_dimensions.width = Max(xs) - Min(xs) + 1

\* C19 witness: a Drop has found the current bag empty, swapped the bags and
\* drawn from the new current one, with the dropped piece against the right
\* wall.
C19_Witness ==
    /\ call = "Drop"
    /\ pre.current_piece_bag = << >>
    /\ Len(drawn) = Len(pre.drawn) + 1
    /\ Len(current_piece_bag) = 6
    /\ \E cell \in PieceCells(LockedPiece) : cell[1] = GRID_COLUMNS - 1

\* ---- stored dimensions (C20)
\* C20: whatever the kind and the rotation state of the active piece, its
\* stored width is (max x - min x + 1) and its stored height is
\* (max y - min y + 1) over the 4 offsets of its active map.
C20_StoredDimensionsAreSpans ==
    LET piece_map == active_piece.piece_dimensions.piece_map
        xs        == {piece_map[i][1] : i \in 1 .. 4}
        ys        == {piece_map[i][2] : i \in 1 .. 4}
    IN  /\ active_piece.piece_dimensions.width = Max(xs) - Min(xs) + 1
        /\ active_piece.piece_dimensions.height = Max(ys) - Min(ys) + 1

\* ---- the second listed kick (C21)
\* The rotated map of pre fits neither at (0,0) nor at the first listed
\* offset, and fits at the second listed offset.
OnlyFromSecondKick(gs) ==
    /\ ~FitsAt(gs, <<0, 0>>)
    /\ ~FitsAt(gs, ClockwiseTable(gs)[1])
    /\ FitsAt(gs, ClockwiseTable(gs)[2])

\* The rotated map of pre does not fit at (0,0) and fits at the first listed
\* offset.
FromFirstKick(gs) ==
    /\ ~FitsAt(gs, <<0, 0>>)
    /\ FitsAt(gs, ClockwiseTable(gs)[1])

\* C21 as claimed: a RotateClockwise whose rotated map fits neither at (0,0)
\* nor at the first listed offset but fits at the second listed offset is
\* rejected (active piece unchanged); when the first listed offset fits (and
\* (0,0) does not), the rotation commits with exactly that shift.
C21_SecondKickRejected ==
    call = "RotateClockwise" =>
        /\ OnlyFromSecondKick(pre) => Self = pre
        /\ FromFirstKick(pre) =>
              RotationCommitted /\ PositionShift = ClockwiseTable(pre)[1]

\* C21 amended: a RotateClockwise whose rotated map fits neither at (0,0)
\* nor at the first listed offset but fits at the second listed offset
\* commits the rotation with exactly the second listed shift; when the first
\* listed offset fits (and (0,0) does not), the rotation commits with exactly
\* the first listed shift. Nothing else of the state changes.
C21_SecondKickApplied ==
    call = "RotateClockwise" =>
        /\ OnlyFromSecondKick(pre) =>
              /\ RotationCommitted
              /\ PositionShift = ClockwiseTable(pre)[2]
              /\ [Self EXCEPT !.active_piece = pre.active_piece] = pre
        /\ FromFirstKick(pre) =>
              /\ RotationCommitted
              /\ PositionShift = ClockwiseTable(pre)[1]
              /\ [Self EXCEPT !.active_piece = pre.active_piece] = pre

\* C21 witness: a RotateClockwise was pressed on a piece whose rotated map
\* fitted at the second listed offset only after failing at (0,0) and at the
\* first listed offset, and the piece now stands rotated at that shift.
C21_Witness ==
    /\ call = "RotateClockwise"
    /\ OnlyFromSecondKick(pre)
    /\ RotationCommitted
    /\ PositionShift = ClockwiseTable(pre)[2]
    /\ PositionShift # <<0, 0>>

\* ---- who sets gameover (C22)
\* The last call turned gameover from false to true.
GameEnded == Called /\ ~pre.gameover /\ gameover

\* C22 as claimed: gameover turns from false to true only in a call that ran
\* freeze_piece.
C22_OnlyLockEndsGame ==
    GameEnded => LockRan

\* C22 amended: gameover turns from false to true only in a call that ran
\* freeze_piece, on one of its two gameover branches (the locked piece lies
\* entirely in the hidden rows, or the drawn piece overlaps the grid at its
\* spawn cells), or in on_button_pressed(Quit).
C22_OnlyLockOrQuitEndsGame ==
    GameEnded =>
        \/ call = "Quit"
        \/ /\ LockRan
           /\ \/ LowestRow(LockedPiece) >= GRID_VISIBLE_ROWS
              \/ /\ Len(drawn) = Len(pre.drawn) + 1
                 /\ PieceCells(SpawnedPiece) \cap OccupiedCells(grid) # {}

\* C22 witness: Quit has ended a running game in which pieces have already
\* been locked, without touching grid, piece or bags.
C22_Witness ==
    /\ GameEnded
    /\ call = "Quit"
    /\ OccupiedCells(grid) # {}
    /\ [Self EXCEPT !.gameover = FALSE] = pre

\* ---- heights (C23)
\* The occupied rows of column col that are at most row top.
OccupiedUpTo(grid_map, col, top) ==
    {row \in Rows : row <= top /\ grid_map[row][col] # None}

\* One past the greatest element of a set of rows, 0 for the empty set.
OnePast(rows) == IF rows = {} THEN 0 ELSE Max(rows) + 1

\* C23 as claimed: for every below_row in 0..GRID_ROWS and every column c,
\* heights(below_row)[c] is one past the highest occupied row of column c
\* that is at or below below_row, and 0 if there is none.
C23_HeightsAtOrBelow ==
    \A below_row \in 0 .. GRID_ROWS : \A c \in Cols :
        heights(grid, below_row)[c] = OnePast(OccupiedUpTo(grid, c, below_row))

\* C23 amended: for every below_row in 0..GRID_ROWS and every column c,
\* heights(below_row)[c] is one past the highest occupied row of column c
\* that is strictly below below_row, and 0 if there is none; an empty grid
\* gives all 0 and a full grid queried at GRID_ROWS gives all GRID_ROWS.
C23_HeightsStrictlyBelow ==
    /\ \A below_row \in 0 .. GRID_ROWS : \A c \in Cols :
          heights(grid, below_row)[c] = OnePast(OccupiedUpTo(grid, c, below_row - 1))
    /\ grid = Grid_new => \A c \in Cols : heights(grid, GRID_ROWS)[c] = 0
    /\ grid = FullGrid => \A c \in Cols : heights(grid, GRID_ROWS)[c] = GRID_ROWS

\* C23 witness: a grid in which set_cell has just put a cell on row 2 of a
\* column whose row 1 is empty and whose row 0 is occupied: queried at
\* below_row 2 the column's height is 1, queried at 3 it is 3.
C23_Witness ==
    /\ call = "set_cell"
    /\ arg.y = 2 /\ arg.x \in Cols /\ arg.kind # None
    /\ pre.grid[2][arg.x] = None
    /\ grid[1][arg.x] = None
    /\ grid[0][arg.x] # None
    /\ heights(grid, 2)[arg.x] = 1
    /\ heights(grid, 3)[arg.x] = 3

\* ---- widths (C24)
\* C24: for every row r, widths()[r] is the number of cells of row r whose
\* kind is not None; all 0 for the empty grid, all GRID_COLUMNS for the
\* fully filled grid.
C24_WidthsCountCells ==
    /\ \A r \in Rows :
          widths(grid)[r] = Cardinality({c \in Cols : grid[r][c] # None})
    /\ grid = Grid_new => \A r \in Rows : widths(grid)[r] = 0
    /\ grid = FullGrid => \A r \in Rows : widths(grid)[r] = GRID_COLUMNS

\* C24 witness: set_cell has just filled an empty cell of a row that now is
\* neither empty nor full, and the width of that row has grown by one.
C24_Witness ==
    /\ call = "set_cell"
    /\ is_within_bounds(arg.x, arg.y)
    /\ arg.kind # None
    /\ pre.grid[arg.y][arg.x] = None
    /\ widths(grid)[arg.y] = widths(pre.grid)[arg.y] + 1
    /\ widths(grid)[arg.y] > 1
    /\ widths(grid)[arg.y] < GRID_COLUMNS

\* ---- is_within_bounds (C25)
\* C25: is_within_bounds(x, y) is true exactly for the cells of the grid:
\* for every x from -1 to GRID_COLUMNS and y from -1 to GRID_ROWS it is true
\* if and only if x is a column and y is a row, it is false one step outside
\* each of the four edges, and set_cell, which is guarded by it, changes the
\* grid at (x, y) on the grid and changes nothing outside.
C25_WithinBoundsExact ==
    /\ \A x \in -1 .. GRID_COLUMNS : \A y \in -1 .. GRID_ROWS :
          is_within_bounds(x, y) <=> (x \in Cols /\ y \in Rows)
    /\ ~is_within_bounds(-1, 0)
    /\ ~is_within_bounds(GRID_COLUMNS, 0)
    /\ ~is_within_bounds(0, -1)
    /\ ~is_within_bounds(0, GRID_ROWS)
    /\ call = "set_cell" =>
          IF arg.x \in Cols /\ arg.y \in Rows
          THEN /\ grid[arg.y][arg.x] = arg.kind
               /\ ChangedCells(pre.grid, grid) \subseteq {<<arg.x, arg.y>>}
          ELSE grid = pre.grid

\* C25 witness: set_cell was called with a kind one column right of the last
\* column, on a row of the grid, and the grid is as it was.
C25_Witness ==
    /\ call = "set_cell"
    /\ arg.x = GRID_COLUMNS
    /\ arg.y = GRID_ROWS - 1
    /\ arg.kind # None
    /\ grid = pre.grid
    /\ grid # FullGrid

\* ---- clear_row (C26)
\* C26: clear_row(r) for a row r of the grid sets every cell of row r to
\* None and leaves every other row unchanged; after the loop that clears
\* every row, of the fully filled grid as of any other, widths() and
\* heights(GRID_ROWS) are all zero.
C26_ClearRowClearsOneRow ==
    /\ call = "clear_row" =>
          /\ \A c \in Cols : grid[arg.row][c] = None
          /\ \A r \in Rows \ {arg.row} : grid[r] = pre.grid[r]
    /\ call = "row_clearing" =>
          /\ \A r \in Rows : widths(grid)[r] = 0
          /\ \A c \in Cols : heights(grid, GRID_ROWS)[c] = 0

\* C26 witness: clear_row(1) has emptied a completely filled row 1 that lies
\* between two rows that were and still are completely filled.
C26_Witness ==
    /\ call = "clear_row"
    /\ arg.row = 1
    /\ \A c \in Cols : pre.grid[1][c] # None /\ grid[1][c] = None
    /\ \A c \in Cols : grid[0][c] # None /\ grid[2][c] # None

\* ---- distance_to_drop against cell-by-cell collision (C27)
\* The cells of the active piece of gs translated down by k.
LoweredCells(gs, k) ==
    {<< cell[1], cell[2] - k >> : cell \in PieceCells(gs.active_piece)}

\* Every one of the cells is on the grid and empty.
CellsClear(grid_map, cells) ==
    \A cell \in cells : InGrid(cell) /\ grid_map[cell[2]][cell[1]] = None

\* The largest d >= k such that the piece translated down by every one of
\* k..d is on the grid and overlaps no occupied cell, given that it is so
\* translated down by k: the piece is lowered cell by cell until it collides.
RECURSIVE FallFrom(_, _)
FallFrom(gs, k) ==
    IF CellsClear(gs.grid, LoweredCells(gs, k + 1)) THEN FallFrom(gs, k + 1) ELSE k

LargestFall(gs) == FallFrom(gs, 0)

\* C27: whenever the active piece is on the grid and overlaps no occupied
\* cell, distance_to_drop() is the largest d >= 0 such that the piece
\* translated down by every k in 0..d is on the grid and overlaps no
\* occupied cell.
C27_DropDistanceIsLargestFall ==
    CellsClear(grid, PieceCells(active_piece)) =>
        distance_to_drop(Self) = LargestFall(Self)

\* C27 witness: a piece that fits where it is has an occupied cell straight
\* above one of its cells (it lies under an overhang) and a drop distance of
\* at least 1 that equals the largest fall and ends on locked cells, above
\* the floor.
C27_Witness ==
    /\ CellsClear(grid, PieceCells(active_piece))
    /\ \E cell \in PieceCells(active_piece) :
          \E row \in Rows : row > cell[2] /\ grid[row][cell[1]] # None
    /\ distance_to_drop(Self) >= 1
    /\ distance_to_drop(Self) < LowestRow(active_piece)
    /\ distance_to_drop(Self) = LargestFall(Self)

\* ---- Drop against repeated gravity (C28)
\* gs with its active piece k rows lower.
Lowered(gs, k) == [gs EXCEPT !.active_piece.position.y = @ - k]

\* n + 1 calls of apply_gravity in a row take gs to result: call k + 1, for
\* k < n, takes the state with the piece k rows lower to the state with the
\* piece k + 1 rows lower, and the last call takes the state with the piece
\* n rows lower to result.  fresh is the outcome of gen_piece_bag() should
\* a call refill the bags.
GravityRun(gs, n, fresh, result) ==
    /\ \A k \in 0 .. n - 1 : apply_gravity(Lowered(gs, k), fresh) = Lowered(gs, k + 1)
    /\ apply_gravity(Lowered(gs, n), fresh) = result

\* The shuffle the last call received from gen_piece_bag(), << >> when it
\* did not refill the bags.
ShuffleUsed ==
    IF pre.current_piece_bag = << >> /\ Len(drawn) = Len(pre.drawn) + 1
    THEN next_piece_bag
    ELSE << >>

\* C28: the state Drop leaves (grid, active piece, bags, gameover, draws) is
\* the state that distance_to_drop() + 1 calls of apply_gravity in a row
\* leave from the same state, given the same shuffle.
C28_DropIsRepeatedGravity ==
    call = "Drop" =>
        GravityRun(pre, distance_to_drop(pre), ShuffleUsed, Self)

\* C28 witness: a Drop has taken a piece down by at least 2 rows onto locked
\* cells, locked it into the grid and drawn from bags that it had to refill.
C28_Witness ==
    /\ call = "Drop"
    /\ distance_to_drop(pre) >= 2
    /\ distance_to_drop(pre) < LowestRow(pre.active_piece)
    /\ PieceCells(LockedPiece) \subseteq OccupiedCells(grid)
    /\ pre.current_piece_bag = << >>
    /\ ShuffleUsed \in gen_piece_bag
    /\ GravityRun(pre, distance_to_drop(pre), ShuffleUsed, Self)

\* ---- the precomputed rotation states (C29)
\* An offset turned a quarter clockwise about the pivot (p, p), (x, y) ->
\* (p + (y - p), p - (x - p)), with pivot2 = 2 * p.
QuarterTurn(cell, pivot2) == << cell[2], pivot2 - cell[1] >>

\* The maps of a piece are quarter turns of one another about the pivot of
\* its kind, all the way round, and each has 4 distinct integer cells.
QuarterTurnsAllRound(piece) ==
    LET maps   == piece.rotated_pieces
        pivot2 == CASE piece.kind = "I" -> 3
                    [] piece.kind = "O" -> 1
                    [] OTHER            -> 2
    IN  /\ Len(maps) = 4
        /\ maps[1] = CanonicalMap(piece.kind)
        /\ \A i \in 1 .. 3 : \A j \in 1 .. 4 :
              maps[i + 1][j] = QuarterTurn(maps[i][j], pivot2)
        /\ \A j \in 1 .. 4 : maps[1][j] = QuarterTurn(maps[4][j], pivot2)
        /\ \A i \in 1 .. 4 :
              /\ Cardinality({maps[i][j] : j \in 1 .. 4}) = 4
              /\ \A j \in 1 .. 4 : maps[i][j] \in Int \X Int
        /\ piece.piece_dimensions.piece_map = maps[piece.rotation + 1]

\* C29: for every piece kind, the precomputed map of rotation state i + 1
\* (i = 0, 1, 2) is the map of state i with each offset turned a quarter
\* clockwise about the pivot of the kind ((1.5,1.5) for I, (0.5,0.5) for O,
\* (1,1) for J, L, S, T, Z), every map has 4 distinct integer cells, and the
\* state-270 map turned once more is the state-0 map.  It is stated of the
\* active piece, which is of every kind in turn: it carries these maps and
\* its active map is the one of its rotation state.
C29_RotationStatesAreQuarterTurns ==
    QuarterTurnsAllRound(active_piece)

\* C29 witness: a RotateClockwise has taken an I piece from rotation state
\* 270 back to state 0, and its active map is the canonical map again.
C29_Witness ==
    /\ call = "RotateClockwise"
    /\ active_piece.kind = "I"
    /\ pre.active_piece.rotation = Rot270
    /\ active_piece.rotation = Rot0
    /\ active_piece.piece_dimensions.piece_map = PIECE_I
    /\ pre.active_piece.piece_dimensions.piece_map # PIECE_I

\* ---- the spawn position (C30)
\* The active piece has just been made by Piece::new: by the constructor of
\* the game, or by a lock that drew it and found its spawn cells empty.
JustSpawned ==
    \/ call = "default"
    \/ /\ LockRan
       /\ Len(drawn) = Len(pre.drawn) + 1
       /\ PieceCells(SpawnedPiece) \cap OccupiedCells(grid) = {}

\* The number of columns a map spans.
ColumnSpan(piece_map) ==
    Max({piece_map[i][1] : i \in 1 .. 4}) - Min({piece_map[i][1] : i \in 1 .. 4}) + 1

\* C30: a freshly spawned piece, of whatever kind, has rotation state 0, x
\* position GRID_COLUMNS/2 - width/2, and all 4 cells on the grid and in the
\* hidden rows (row >= GRID_VISIBLE_ROWS); and a lock of a piece that stands
\* where it spawned and cannot fall sets gameover and writes nothing.
C30_SpawnsInHiddenRows ==
    /\ JustSpawned =>
          /\ active_piece.rotation = Rot0
          /\ active_piece.piece_dimensions.piece_map = CanonicalMap(active_piece.kind)
          /\ active_piece.position.x =
                (GRID_COLUMNS \div 2)
                    - (ColumnSpan(active_piece.piece_dimensions.piece_map) \div 2)
          /\ \A cell \in PieceCells(active_piece) :
                InGrid(cell) /\ cell[2] >= GRID_VISIBLE_ROWS
    /\ ( /\ LockRan
         /\ pre.active_piece = Piece_new(pre.active_piece.kind)
         /\ distance_to_drop(pre) = 0 )
       => /\ gameover
          /\ grid = pre.grid
          /\ active_piece = pre.active_piece

\* C30 witness: apply_gravity has found a piece resting on the stack right
\* where it spawned, in a game still running, and has ended the game without
\* writing the piece into the grid.
C30_Witness ==
    /\ call = "apply_gravity"
    /\ ~pre.gameover
    /\ pre.active_piece = Piece_new(pre.active_piece.kind)
    /\ distance_to_drop(pre) = 0
    /\ gameover
    /\ grid = pre.grid
    /\ OccupiedCells(grid) # {}

\* ---- the two collision models (C31)
\* C31: whenever the active piece is on the grid and overlaps no occupied
\* cell, is_valid_move(Down) is true if and only if distance_to_drop() > 0;
\* so MoveDown moves the piece exactly when an apply_gravity tick moves it
\* (and does not lock it), and both then leave the same state.
C31_MoveDownAgreesWithGravity ==
    CellsClear(grid, PieceCells(active_piece)) =>
        /\ is_valid_move(Self, "Down") <=> distance_to_drop(Self) > 0
        /\ (try_move(Self, "Down") # Self) <=> distance_to_drop(Self) > 0
        /\ distance_to_drop(Self) > 0 =>
              try_move(Self, "Down") = apply_gravity(Self, << >>)

\* C31 witness: MoveDown was pressed on a piece that fits where it is and
\* rests on locked cells above the floor; distance_to_drop() was 0,
\* is_valid_move(Down) was false and the press changed nothing.
C31_Witness ==
    /\ call = "MoveDown"
    /\ CellsClear(pre.grid, PieceCells(pre.active_piece))
    /\ LowestRow(pre.active_piece) > 0
    /\ distance_to_drop(pre) = 0
    /\ ~is_valid_move(pre, "Down")
    /\ Self = pre

\* ---- on_update leaves no full row (C32)
\* C32: after on_update returns no row of the grid has width GRID_COLUMNS,
\* and a second on_update right after it would leave the state unchanged.
C32_UpdateLeavesNoFullRow ==
    call = "on_update" =>
        /\ \A r \in Rows : widths(grid)[r] # GRID_COLUMNS
        /\ on_update(Self) = Self

\* C32 witness: on_update has run on a grid with at least two full rows and
\* locked cells above them, and has changed the grid.
C32_Witness ==
    /\ call = "on_update"
    /\ Cardinality(FullRows(pre.grid)) >= 2
    /\ \E r \in Rows : /\ \A full \in FullRows(pre.grid) : r > full
                       /\ widths(pre.grid)[r] > 0
    /\ grid # pre.grid
    /\ OccupiedCells(grid) # {}

\* ---- the two bags (C33)
\* The sequence holds no kind twice and only piece kinds (never None).
DistinctKinds(bag) ==
    /\ \A i, j \in 1 .. Len(bag) : bag[i] = bag[j] => i = j
    /\ \A i \in 1 .. Len(bag) : bag[i] \in PieceKinds

\* The last call drew a kind from the bags.
Drew == Called /\ Len(drawn) = Len(pre.drawn) + 1

\* C33: in every reachable state the next bag holds exactly 7 kinds, each of
\* I, J, L, O, S, T, Z once, and the current bag holds between 0 and 7 kinds,
\* none repeated and none of them None; the bags change only at a draw; a
\* draw from a non-empty current bag pops its last kind and leaves the next
\* bag alone; a draw at an empty current bag makes the old next bag the
\* current one, pops its last kind, and installs a full next bag.
C33_BagsWellFormed ==
    /\ Len(next_piece_bag) = 7
    /\ DistinctKinds(next_piece_bag)
    /\ {next_piece_bag[i] : i \in 1 .. 7} = PieceKinds
    /\ Len(current_piece_bag) \in 0 .. 7
    /\ DistinctKinds(current_piece_bag)
    /\ (Called /\ ~Drew) =>
          /\ current_piece_bag = pre.current_piece_bag
          /\ next_piece_bag = pre.next_piece_bag
    /\ (Drew /\ pre.current_piece_bag # << >>) =>
          /\ current_piece_bag =
                SubSeq(pre.current_piece_bag, 1, Len(pre.current_piece_bag) - 1)
          /\ drawn[Len(drawn)] = pre.current_piece_bag[Len(pre.current_piece_bag)]
          /\ next_piece_bag = pre.next_piece_bag
    /\ (Drew /\ pre.current_piece_bag = << >>) =>
          /\ current_piece_bag = SubSeq(pre.next_piece_bag, 1, 6)
          /\ drawn[Len(drawn)] = pre.next_piece_bag[7]
          /\ next_piece_bag \in gen_piece_bag

\* C33 witness: apply_gravity has locked a piece while the current bag was
\* empty: the old next bag, less the kind drawn, is the current bag, and the
\* next bag is a different, full one.
C33_Witness ==
    /\ call = "apply_gravity"
    /\ Drew
    /\ pre.current_piece_bag = << >>
    /\ current_piece_bag = SubSeq(pre.next_piece_bag, 1, 6)
    /\ next_piece_bag # pre.next_piece_bag
    /\ Len(next_piece_bag) = 7

\* ---- rotating the O piece (C34)
\* C34: RotateClockwise on an active O piece that is on the grid and overlaps
\* no occupied cell always commits at offset (0,0): the rotation state
\* advances by one, the position and the set of 4 absolute cells stay the
\* same, and nothing else of the state changes.
C34_SquareTurnsInPlace ==
    ( /\ call = "RotateClockwise"
      /\ pre.active_piece.kind = "O"
      /\ CellsClear(pre.grid, PieceCells(pre.active_piece)) )
    => /\ active_piece.rotation = (pre.active_piece.rotation + 1) % 4
       /\ active_piece.position = pre.active_piece.position
       /\ PieceCells(active_piece) = PieceCells(pre.active_piece)
       /\ FitsAt(pre, <<0, 0>>)
       /\ [Self EXCEPT !.active_piece = pre.active_piece] = pre

\* C34 witness: an O piece that had been turned before, standing clear over a
\* grid with locked cells, was turned again and still covers the same cells.
C34_Witness ==
    /\ call = "RotateClockwise"
    /\ pre.active_piece.kind = "O"
    /\ pre.active_piece.rotation # Rot0
    /\ CellsClear(pre.grid, PieceCells(pre.active_piece))
    /\ OccupiedCells(grid) # {}
    /\ active_piece.rotation = (pre.active_piece.rotation + 1) % 4
    /\ PieceCells(active_piece) = PieceCells(pre.active_piece)

\* ---- gravity alone ends the game (C35)
\* The number of apply_gravity ticks the active piece has received since it
\* spawned, when nothing but ticks moves it: the rows it has come down.
TicksSinceSpawn ==
    Piece_new(active_piece.kind).position.y - active_piece.position.y

\* A tick that does not lock lowers the piece by exactly one row, and the
\* tick that would be number GRID_ROWS + 1 never comes: the piece has locked
\* by then.
LocksWithinGridRows ==
    /\ TicksSinceSpawn >= 0
    /\ TicksSinceSpawn + 1 <= GRID_ROWS
    /\ (call = "apply_gravity" /\ ~LockRan) =>
          /\ TicksSinceSpawn >= 1
          /\ active_piece = [pre.active_piece EXCEPT !.position.y = @ - 1]
    /\ (call = "apply_gravity" /\ LockRan) => (Drew \/ gameover)

\* C35: when the host issues only apply_gravity ticks, with on_update calls
\* in between, every active piece locks after at most GRID_ROWS ticks and
\* the game eventually reaches gameover.
C35_GravityAloneEndsGame ==
    /\ []LocksWithinGridRows
    /\ <>gameover

\* C35 witness: a tick has ended a game in which at least 5 pieces were
\* locked by ticks alone, and on_update has run in between.
C35_Witness ==
    /\ call = "apply_gravity"
    /\ ~pre.gameover
    /\ gameover
    /\ Len(drawn) >= 5
    /\ pre.grid = on_update(pre).grid
    /\ Cardinality(OccupiedCells(grid)) >= 20

=============================================================================
